---- MODULE Spec2Model ----
(***************************************************************************)
(* ServiceMap aggregation engine (agent/src/progs/service_map/program.rs): *)
(* the engine state behind its reader/writer lock, the start() loop with   *)
(* its select between the timer tick and the shutdown channel, one poll    *)
(* cycle, and the kernel-side raw connection table it reads.               *)
(***************************************************************************)
EXTENDS Integers, FiniteSets, Sequences, TLC

(* ------------------------------ bounds -------------------------------- *)
\* bytes the kernel side records in the raw table, over all its entries
MaxTraffic == 2
\* threads (pid_tgid values) the probes run for
MaxThreads == 2
\* shutdown signals that can be pending on the receiver
MaxSignals == 1

(* ---------------------------- constants ------------------------------- *)
CONNECTION_ROLE_UNKNOWN == 0
CONNECTION_ROLE_CLIENT == 1
CONNECTION_ROLE_SERVER == 2

None == "None"
Bound == "CONNECTIONS"

\* Inner::new(): name: "service_map"
Name == "service_map"

\* u32 addresses: 10.0.0.1, 10.0.0.2, 10.0.0.9 and 127.0.0.1
AddrA == 10 * 16777216 + 1
AddrB == 10 * 16777216 + 2
AddrU == 10 * 16777216 + 9
AddrL == 127 * 16777216 + 1

\* the identity resolver's table: dotted-quad string (as its four octets)
\* to workload; 10.0.0.9 has no workload
IpToWorkload ==
    (<<10, 0, 0, 1>> :> "X") @@ (<<10, 0, 0, 2>> :> "Y") @@ (<<127, 0, 0, 1>> :> "X")

Key(sa, sp, da, dp, r) ==
    [src_addr |-> sa, src_port |-> sp, dest_addr |-> da, dest_port |-> dp, role |-> r]

\* the raw flow keys the kernel side writes in the model
KeyClient  == Key(AddrA, 1000, AddrB, 80, CONNECTION_ROLE_CLIENT)
KeyServer  == Key(AddrB, 80, AddrA, 1000, CONNECTION_ROLE_SERVER)
KeyClient2 == Key(AddrA, 1001, AddrB, 80, CONNECTION_ROLE_CLIENT)
KeySelf    == Key(AddrA, 1000, AddrA, 80, CONNECTION_ROLE_CLIENT)
KeyLoop    == Key(AddrA, 1000, AddrL, 80, CONNECTION_ROLE_CLIENT)
KeyNoDest  == Key(AddrA, 1000, AddrU, 80, CONNECTION_ROLE_CLIENT)
KeyNoSrc   == Key(AddrU, 80, AddrA, 1000, CONNECTION_ROLE_SERVER)
KeyUnknown == Key(AddrA, 1000, AddrB, 80, CONNECTION_ROLE_UNKNOWN)
Keys ==
    {KeyClient, KeyServer, KeyClient2, KeySelf, KeyLoop, KeyNoDest, KeyNoSrc, KeyUnknown}

Metadatas == {<<>>, "owner" :> "agent"}
Signals == {[all |-> TRUE, name |-> ""],
            [all |-> FALSE, name |-> "service_map"],
            [all |-> FALSE, name |-> "other"]}

EmptyMap == <<>>

\* start()'s recv arm has taken no signal yet
NoSignal == [all |-> FALSE, name |-> ""]

VARIABLES
    program_state,      \* Inner.program_state
    metadata,           \* Inner.metadata
    current_conns_map,  \* Inner.current_conns_map: None or the bound table
    past_conns_map,     \* Inner.past_conns_map: Connection -> bytes
    cache_mgr,          \* Inner.cache_mgr: None or "Some"
    readers,            \* read guards held on the engine's RwLock
    write_wait,         \* a writer is parked on the engine's RwLock
    CONNECTIONS,        \* the kernel's raw table: key -> [bytes_sent, is_active]
    pc,                 \* position of the task running start()
    start_result,       \* what the last start() call returned
    shutdown_rx,        \* signals pending on start()'s broadcast receiver
    keys_to_remove,     \* poll(): keys seen inactive by the scan
    current_conns,      \* poll(): the running totals it returns
    poll_result,        \* the value the last finished poll() returned
    dirty,              \* the raw table changed since the last finished poll()
    started_bare,       \* the running start() call was made with no table handle
    signal,             \* start(): the signal its recv arm took last and ignored
    ACTIVE_WRITE_MAP,   \* scratch table of the send family: pid_tgid -> DataArgs
    ACTIVE_READ_MAP,    \* scratch table of the recvmsg family: pid_tgid -> DataArgs
    ACTIVE_CONNECT_MAP, \* scratch table of implicit connects: pid_tgid -> ConnectArgs
    probe_event         \* the probe that ran last, for which thread, with what effect

vars == <<program_state, metadata, current_conns_map, past_conns_map, cache_mgr,
          readers, write_wait, CONNECTIONS, pc, start_result, shutdown_rx,
          keys_to_remove, current_conns, poll_result, dirty, started_bare,
          signal, ACTIVE_WRITE_MAP, ACTIVE_READ_MAP, ACTIVE_CONNECT_MAP, probe_event>>

engine == <<program_state, metadata, current_conns_map, past_conns_map, cache_mgr>>
lock == <<readers, write_wait>>
task == <<pc, start_result, shutdown_rx, started_bare, signal>>
polling == <<keys_to_remove, current_conns, poll_result>>
probes == <<ACTIVE_WRITE_MAP, ACTIVE_READ_MAP, ACTIVE_CONNECT_MAP, probe_event>>

\* probe_event before any probe has run, and after a run of probe p for
\* thread t: sampled says the byte-accounting routine was called
NoProbe == [probe |-> "none", tid |-> 0, sampled |-> FALSE]
ProbeRun(p, t, smp) == [probe |-> p, tid |-> t, sampled |-> smp]

NoPoll == [ok |-> FALSE, err |-> "none", totals |-> EmptyMap]
PollOk(t) == [ok |-> TRUE, err |-> "", totals |-> t]
PollErr(e) == [ok |-> FALSE, err |-> e, totals |-> EmptyMap]

(* --------------------------- pure helpers ----------------------------- *)
\* Ipv4Addr::from(u32).to_string(): the dotted quad, big-endian octets
IpString(ip) ==
    <<ip \div 16777216, (ip \div 65536) % 256, (ip \div 256) % 256, ip % 256>>

\* is_loopback_address: Ipv4Addr::from(addr).is_loopback(), i.e. 127.0.0.0/8
is_loopback_address(addr) == IpString(addr)[1] = 127

\* mutant of resolve_ip: an IP without a workload gets a placeholder workload
resolve_ip_default(cm, ip) ==
    IF cm = None THEN None
    ELSE IF IpString(ip) \in DOMAIN IpToWorkload THEN IpToWorkload[IpString(ip)]
    ELSE "unknown"

\* resolve_ip: None without a cache manager or without an entry for the IP
resolve_ip(cm, ip) ==
    IF cm = None THEN None
    ELSE IF IpString(ip) \in DOMAIN IpToWorkload THEN IpToWorkload[IpString(ip)]
    ELSE None

Connection(c, s, r, p) == [client |-> c, server |-> s, role |-> r, server_port |-> p]

\* mutant of build_connection: the Server role takes the destination port too
build_connection_dest_port(cm, key) ==
    LET client_workload == resolve_ip(cm, key.src_addr)
        server_workload == resolve_ip(cm, key.dest_addr)
    IN  IF client_workload = None THEN [ok |-> FALSE, err |-> "Unknown IP"]
        ELSE IF server_workload = None THEN [ok |-> FALSE, err |-> "Unknown IP"]
        ELSE IF key.role = CONNECTION_ROLE_CLIENT
            THEN [ok |-> TRUE,
                  conn |-> Connection(client_workload, server_workload, key.role, key.dest_port)]
        ELSE IF key.role = CONNECTION_ROLE_SERVER
            THEN [ok |-> TRUE,
                  conn |-> Connection(server_workload, client_workload, key.role, key.dest_port)]
        ELSE [ok |-> FALSE, err |-> "Unknown connection role"]

\* build_connection: Ok(Connection) or Err(message)
build_connection(cm, key) ==
    LET client_workload == resolve_ip(cm, key.src_addr)
        server_workload == resolve_ip(cm, key.dest_addr)
    IN  IF client_workload = None THEN [ok |-> FALSE, err |-> "Unknown IP"]
        ELSE IF server_workload = None THEN [ok |-> FALSE, err |-> "Unknown IP"]
        ELSE IF key.role = CONNECTION_ROLE_CLIENT
            THEN [ok |-> TRUE,
                  conn |-> Connection(client_workload, server_workload, key.role, key.dest_port)]
        ELSE IF key.role = CONNECTION_ROLE_SERVER
            THEN [ok |-> TRUE,
                  conn |-> Connection(server_workload, client_workload, key.role, key.src_port)]
        ELSE [ok |-> FALSE, err |-> "Unknown connection role"]

\* mutant of Accumulate: the entry is overwritten, not summed
AccumulateOverwrite(m, conn, bytes) ==
    IF conn \in DOMAIN m THEN [m EXCEPT ![conn] = bytes] ELSE m @@ (conn :> bytes)

\* entry(conn).and_modify(|e| *e += bytes).or_insert(bytes)
Accumulate(m, conn, bytes) ==
    IF conn \in DOMAIN m THEN [m EXCEPT ![conn] = @ + bytes] ELSE m @@ (conn :> bytes)

\* mutant of SkipSelfOrLoopback: the loopback test is forgotten
SkipSelfOnly(key) == key.src_addr = key.dest_addr

\* the scan's skip test for an active entry: self-traffic or loopback destination
SkipSelfOrLoopback(key) ==
    key.src_addr = key.dest_addr \/ is_loopback_address(key.dest_addr)

\* one iteration of poll()'s scan loop over (key, stats)
ScanEntry(cm, acc, key, stats) ==
    IF stats.is_active # 1
        THEN [acc EXCEPT !.remove = @ \cup {key}]
    ELSE IF SkipSelfOrLoopback(key) THEN acc
    ELSE IF key.role = CONNECTION_ROLE_UNKNOWN THEN acc
    ELSE LET b == build_connection(cm, key)
         IN  IF b.ok THEN [acc EXCEPT !.conns = Accumulate(@, b.conn, stats.bytes_sent)]
             ELSE acc

\* poll()'s scan loop over the whole table
RECURSIVE ScanTable(_, _, _, _)
ScanTable(cm, tbl, ks, acc) ==
    IF ks = {} THEN acc
    ELSE LET k == CHOOSE x \in ks : TRUE
         IN  ScanTable(cm, tbl, ks \ {k}, ScanEntry(cm, acc, k, tbl[k]))

\* poll()'s second loop: every archived total is added to the running totals
RECURSIVE MergeArchive(_, _, _)
MergeArchive(conns, past, cs) ==
    IF cs = {} THEN conns
    ELSE LET c == CHOOSE x \in cs : TRUE
         IN  MergeArchive(Accumulate(conns, c, past[c]), past, cs \ {c})

(* ------------------------------ state --------------------------------- *)
\* Inner::new() behind ServiceMap::new(); the kernel table starts empty
Init ==
    /\ program_state = "Uninitialized"
    /\ metadata = <<>>
    /\ current_conns_map = None
    /\ past_conns_map = EmptyMap
    /\ cache_mgr = None
    /\ readers = 0
    /\ write_wait = FALSE
    /\ CONNECTIONS = EmptyMap
    /\ pc = "idle"
    /\ start_result = "none"
    /\ shutdown_rx = <<>>
    /\ keys_to_remove = {}
    /\ current_conns = EmptyMap
    /\ poll_result = NoPoll
    /\ dirty = FALSE
    /\ started_bare = FALSE
    /\ signal = NoSignal
    /\ ACTIVE_WRITE_MAP = EmptyMap
    /\ ACTIVE_READ_MAP = EmptyMap
    /\ ACTIVE_CONNECT_MAP = EmptyMap
    /\ probe_event = NoProbe

\* RwLock::write() succeeds at once only when no guard is held
CanWrite == readers = 0 /\ ~write_wait

(* ------------------------- kernel-side writers ------------------------ *)
\* the bytes recorded in a table, over all its entries
RECURSIVE Traffic(_, _)
Traffic(tbl, ks) ==
    IF ks = {} THEN 0
    ELSE LET k == CHOOSE x \in ks : TRUE
         IN  tbl[k].bytes_sent + Traffic(tbl, ks \ {k})

\* a probe pair records the first sample of a flow
KernelInsert(k) ==
    /\ k \notin DOMAIN CONNECTIONS
    /\ Traffic(CONNECTIONS, DOMAIN CONNECTIONS) < MaxTraffic
    /\ CONNECTIONS' = CONNECTIONS @@ (k :> [bytes_sent |-> 1, is_active |-> 1])
    /\ dirty' = TRUE
    /\ UNCHANGED <<probes, engine, lock, task, polling>>

\* a further sample of an active flow: the counter only grows
KernelAdd(k) ==
    /\ k \in DOMAIN CONNECTIONS
    /\ CONNECTIONS[k].is_active = 1
    /\ Traffic(CONNECTIONS, DOMAIN CONNECTIONS) < MaxTraffic
    /\ CONNECTIONS' = [CONNECTIONS EXCEPT ![k].bytes_sent = @ + 1]
    /\ dirty' = TRUE
    /\ UNCHANGED <<probes, engine, lock, task, polling>>

\* the socket closed: the activity flag is cleared, once
KernelClose(k) ==
    /\ k \in DOMAIN CONNECTIONS
    /\ CONNECTIONS[k].is_active = 1
    /\ CONNECTIONS' = [CONNECTIONS EXCEPT ![k].is_active = 0]
    /\ dirty' = TRUE
    /\ UNCHANGED <<probes, engine, lock, task, polling>>

(* ------------------------------ engine -------------------------------- *)
\* reset(): the fields it assigns, as [handle, past, metadata, state]
reset ==
    [current_conns_map |-> None, past_conns_map |-> EmptyMap,
     metadata |-> <<>>, program_state |-> "Uninitialized"]

\* how far init gets: the maps argument has no CONNECTIONS entry, the pin
\* directory is missing, the pin path is missing, the table has other types,
\* or the table is bound
InitOutcomes == {"no_id", "no_dir", "no_pin", "bad_type", "bound"}

\* Program::init: metadata and the cache manager are stored first; the handle
\* and the state only when the table was found and converted
init(md, outcome) ==
    /\ CanWrite
    /\ metadata' = md
    /\ cache_mgr' = "Some"
    /\ IF outcome = "bound"
          THEN /\ current_conns_map' = Bound
               /\ program_state' = "Initialized"
          ELSE UNCHANGED <<current_conns_map, program_state>>
    /\ UNCHANGED <<probes, past_conns_map, lock, CONNECTIONS, task, polling, dirty>>

\* Program::start up to the loop: set_state(Running)
StartCall ==
    /\ pc = "idle"
    /\ CanWrite
    /\ program_state' = "Running"
    /\ pc' = "select"
    /\ start_result' = "none"
    /\ started_bare' = (current_conns_map = None)
    /\ signal' = NoSignal
    /\ poll_result' = NoPoll
    /\ UNCHANGED <<probes, metadata, current_conns_map, past_conns_map, cache_mgr, lock,
                   CONNECTIONS, shutdown_rx, keys_to_remove, current_conns, dirty>>

\* a sender broadcasts a shutdown signal to the receiver start() owns
SendShutdown(sig) ==
    /\ Len(shutdown_rx) < MaxSignals
    /\ shutdown_rx' = Append(shutdown_rx, sig)
    /\ UNCHANGED <<probes, engine, lock, CONNECTIONS, pc, start_result, started_bare,
                   signal, polling, dirty>>

\* mutant of PollFailed: the error is returned without set_state(Failed)
PollFailedStateKept(e) ==
    /\ pc' = "idle"
    /\ start_result' = "Err"
    /\ shutdown_rx' = <<>>
    /\ signal' = NoSignal
    /\ poll_result' = PollErr(e)
    /\ UNCHANGED <<probes, engine, lock, CONNECTIONS, started_bare, keys_to_remove,
                   current_conns, dirty>>

\* the tick branch when poll() fails: set_state(Failed); return Err(e)
PollFailed(e) ==
    /\ program_state' = "Failed"
    /\ pc' = "idle"
    /\ start_result' = "Err"
    /\ shutdown_rx' = <<>>
    /\ signal' = NoSignal
    /\ poll_result' = PollErr(e)
    /\ UNCHANGED <<probes, metadata, current_conns_map, past_conns_map, cache_mgr, lock,
                   CONNECTIONS, started_bare, keys_to_remove, current_conns, dirty>>

\* tick, poll(): no table handle
TickPollNoMap ==
    /\ pc = "select"
    /\ ~write_wait
    /\ current_conns_map = None
    /\ PollFailed("No current connections map")

\* tick, poll(): the table iterator yields an error (item?)
TickPollReadError ==
    /\ pc = "select"
    /\ ~write_wait
    /\ current_conns_map # None
    /\ PollFailed("MapError")

\* tick, poll() with every item read: scan, archive merge, then eviction.
\* With nothing to evict poll() returns Ok(current_conns). Otherwise
\* handle_inactive_connection asks for the write lock while poll() still
\* holds its read guard, and the task parks on its own lock.
TickPollScan ==
    /\ pc = "select"
    /\ ~write_wait
    /\ current_conns_map # None
    /\ LET acc == ScanTable(cache_mgr, CONNECTIONS, DOMAIN CONNECTIONS,
                            [remove |-> {}, conns |-> EmptyMap])
           totals == MergeArchive(acc.conns, past_conns_map, DOMAIN past_conns_map)
       IN  IF acc.remove = {}
              THEN /\ poll_result' = PollOk(totals)
                   /\ dirty' = FALSE
                   /\ UNCHANGED <<lock, pc, keys_to_remove, current_conns>>
              ELSE /\ keys_to_remove' = acc.remove
                   /\ current_conns' = totals
                   /\ readers' = readers + 1
                   /\ write_wait' = TRUE
                   /\ pc' = "blocked"
                   /\ UNCHANGED <<poll_result, dirty>>
    /\ UNCHANGED <<probes, engine, CONNECTIONS, start_result, shutdown_rx, started_bare,
                   signal>>

\* mutant of Addressed: the name carried by ProgramName is not compared
AddressedAnyName(sig) == TRUE

\* a signal is addressed to this program: All, or ProgramName(get_name())
Addressed(sig) == sig.all \/ sig.name = Name

\* recv branch, addressed signal: break, reset(), return Ok
RecvShutdown ==
    /\ pc = "select"
    /\ shutdown_rx # <<>>
    /\ Addressed(Head(shutdown_rx))
    /\ CanWrite
    /\ current_conns_map' = reset.current_conns_map
    /\ past_conns_map' = reset.past_conns_map
    /\ metadata' = reset.metadata
    /\ program_state' = reset.program_state
    /\ pc' = "idle"
    /\ start_result' = "Ok"
    /\ shutdown_rx' = <<>>
    /\ signal' = NoSignal
    /\ poll_result' = NoPoll
    /\ UNCHANGED <<probes, cache_mgr, lock, CONNECTIONS, started_bare, keys_to_remove,
                   current_conns, dirty>>

\* recv branch, a name that is not ours: the signal is dropped, the loop goes on
RecvIgnored ==
    /\ pc = "select"
    /\ shutdown_rx # <<>>
    /\ ~Addressed(Head(shutdown_rx))
    /\ shutdown_rx' = Tail(shutdown_rx)
    /\ signal' = Head(shutdown_rx)
    /\ UNCHANGED <<probes, engine, lock, CONNECTIONS, pc, start_result, started_bare,
                   polling, dirty>>

TaskNext ==
    \/ StartCall
    \/ TickPollNoMap
    \/ TickPollReadError
    \/ TickPollScan
    \/ RecvShutdown
    \/ RecvIgnored

Next ==
    \/ \E k \in Keys : KernelInsert(k)
    \/ \E k \in Keys : KernelAdd(k)
    \/ \E k \in Keys : KernelClose(k)
    \/ \E md \in Metadatas, outcome \in InitOutcomes : init(md, outcome)
    \/ \E sig \in Signals : SendShutdown(sig)
    \/ TaskNext

Spec == Init /\ [][Next]_vars

\* the runtime keeps scheduling the task while it has a step to take
FairSpec == Spec /\ WF_vars(TaskNext)

(* --------------------------- socket probes ---------------------------- *)
Threads == 1 .. MaxThreads

\* the descriptor of the traced socket
Fd == 3

\* types::DataArgs as the entry probes fill it (source_function and fd; the buffer fields left out)
DataArgs(sf) == [source_function |-> sf, fd |-> Fd]

\* types::ConnectArgs
ConnectArgs == [fd |-> Fd]

\* HashMap::remove of a key
MapRemove(m, t) == [x \in DOMAIN m \ {t} |-> m[x]]

\* HashMap::insert: the key is added or its value replaced
MapInsert(m, t, v) == [x \in DOMAIN m \cup {t} |-> IF x = t THEN v ELSE m[x]]

\* the flows a traffic sample of the traced socket can be accounted to
SampleKeys == {KeyClient, KeyServer}

\* process_syscall_data / process_syscall_data_vecs: Err changes nothing,
\* Ok adds the returned byte count to the raw entry of the flow
process_syscall_data(tbl, k, res) ==
    IF res = "Err" THEN tbl
    ELSE IF k \in DOMAIN tbl THEN [tbl EXCEPT ![k].bytes_sent = @ + 1]
    ELSE tbl @@ (k :> [bytes_sent |-> 1, is_active |-> 1])

\* how far try_entry_send gets: an argument is unavailable, the insert into
\* the scratch table fails, or the record is stored
EntrySendOutcomes == {"no_arg", "insert_failed", "stored"}

\* try_entry_send for thread t
try_entry_send(t, outcome) ==
    /\ ACTIVE_WRITE_MAP' =
           IF outcome = "stored"
              THEN MapInsert(ACTIVE_WRITE_MAP, t, DataArgs("SyscallSend"))
              ELSE ACTIVE_WRITE_MAP
    /\ probe_event' = ProbeRun("entry_send", t, FALSE)
    /\ UNCHANGED <<ACTIVE_READ_MAP, ACTIVE_CONNECT_MAP, CONNECTIONS, dirty,
                   engine, lock, task, polling>>

\* mutant of try_ret_send: the record is left in the scratch table after the sample
try_ret_send_keep(t, has_ret, k, res) ==
    /\ (res = "Ok") => Traffic(CONNECTIONS, DOMAIN CONNECTIONS) < MaxTraffic
    /\ IF ~has_ret \/ t \notin DOMAIN ACTIVE_WRITE_MAP
          THEN /\ probe_event' = ProbeRun("ret_send", t, FALSE)
               /\ UNCHANGED <<ACTIVE_WRITE_MAP, CONNECTIONS, dirty>>
          ELSE /\ CONNECTIONS' = process_syscall_data(CONNECTIONS, k, res)
               /\ dirty' = (dirty \/ res = "Ok")
               /\ UNCHANGED ACTIVE_WRITE_MAP
               /\ probe_event' = ProbeRun("ret_send", t, TRUE)
    /\ UNCHANGED <<ACTIVE_READ_MAP, ACTIVE_CONNECT_MAP, engine, lock, task, polling>>

\* try_ret_send for thread t: without a return value, or without a scratch
\* record, it returns Err(1) at once; otherwise it calls the accounting
\* routine, removes the record and returns the routine's result
try_ret_send(t, has_ret, k, res) ==
    /\ (res = "Ok") => Traffic(CONNECTIONS, DOMAIN CONNECTIONS) < MaxTraffic
    /\ IF ~has_ret \/ t \notin DOMAIN ACTIVE_WRITE_MAP
          THEN /\ probe_event' = ProbeRun("ret_send", t, FALSE)
               /\ UNCHANGED <<ACTIVE_WRITE_MAP, CONNECTIONS, dirty>>
          ELSE /\ CONNECTIONS' = process_syscall_data(CONNECTIONS, k, res)
               /\ dirty' = (dirty \/ res = "Ok")
               /\ ACTIVE_WRITE_MAP' = MapRemove(ACTIVE_WRITE_MAP, t)
               /\ probe_event' = ProbeRun("ret_send", t, TRUE)
    /\ UNCHANGED <<ACTIVE_READ_MAP, ACTIVE_CONNECT_MAP, engine, lock, task, polling>>

\* how far try_entry_recvmsg gets: an argument is unavailable, the msghdr
\* pointer is null, the msghdr cannot be read, or the records are written
EntryRecvmsgOutcomes == {"no_arg", "null_msghdr", "read_failed", "insert"}

\* try_entry_recvmsg for thread t. With a msg_name the connect record is
\* inserted and the result of that insert ignored; the data record is
\* inserted last and its failure is the probe's error.
try_entry_recvmsg(t, outcome, has_name, connect_stored, read_stored) ==
    /\ ACTIVE_CONNECT_MAP' =
           IF outcome = "insert" /\ has_name /\ connect_stored
              THEN MapInsert(ACTIVE_CONNECT_MAP, t, ConnectArgs)
              ELSE ACTIVE_CONNECT_MAP
    /\ ACTIVE_READ_MAP' =
           IF outcome = "insert" /\ read_stored
              THEN MapInsert(ACTIVE_READ_MAP, t, DataArgs("SyscallRecvMsg"))
              ELSE ACTIVE_READ_MAP
    /\ probe_event' = ProbeRun("entry_recvmsg", t, FALSE)
    /\ UNCHANGED <<ACTIVE_WRITE_MAP, CONNECTIONS, dirty, engine, lock, task, polling>>

\* try_ret_recvmsg for thread t: without a return value it returns Err(1) at
\* once; otherwise the connect record, if any, is removed, and then the data
\* record is looked up, sampled and removed as in try_ret_send
try_ret_recvmsg(t, has_ret, k, res) ==
    /\ (res = "Ok") => Traffic(CONNECTIONS, DOMAIN CONNECTIONS) < MaxTraffic
    /\ IF ~has_ret
          THEN /\ probe_event' = ProbeRun("ret_recvmsg", t, FALSE)
               /\ UNCHANGED <<ACTIVE_CONNECT_MAP, ACTIVE_READ_MAP, CONNECTIONS, dirty>>
          ELSE /\ ACTIVE_CONNECT_MAP' = MapRemove(ACTIVE_CONNECT_MAP, t)
               /\ IF t \notin DOMAIN ACTIVE_READ_MAP
                     THEN /\ probe_event' = ProbeRun("ret_recvmsg", t, FALSE)
                          /\ UNCHANGED <<ACTIVE_READ_MAP, CONNECTIONS, dirty>>
                     ELSE /\ CONNECTIONS' = process_syscall_data(CONNECTIONS, k, res)
                          /\ dirty' = (dirty \/ res = "Ok")
                          /\ ACTIVE_READ_MAP' = MapRemove(ACTIVE_READ_MAP, t)
                          /\ probe_event' = ProbeRun("ret_recvmsg", t, TRUE)
    /\ UNCHANGED <<ACTIVE_WRITE_MAP, engine, lock, task, polling>>

Results == {"Ok", "Err"}

ProbeNext ==
    \/ \E t \in Threads, outcome \in EntrySendOutcomes : try_entry_send(t, outcome)
    \/ \E t \in Threads, has_ret \in BOOLEAN, k \in SampleKeys, res \in Results :
           try_ret_send(t, has_ret, k, res)
    \/ \E t \in Threads, outcome \in EntryRecvmsgOutcomes,
          has_name \in BOOLEAN, connect_stored \in BOOLEAN, read_stored \in BOOLEAN :
           try_entry_recvmsg(t, outcome, has_name, connect_stored, read_stored)
    \/ \E t \in Threads, has_ret \in BOOLEAN, k \in SampleKeys, res \in Results :
           try_ret_recvmsg(t, has_ret, k, res)

\* the probes of one traced socket, run by the kernel in any order
ProbeSpec == Init /\ [][ProbeNext]_vars

(* ------------------------- claim vocabulary --------------------------- *)
TotalOf(m, c) == IF c \in DOMAIN m THEN m[c] ELSE 0

RECURSIVE SumBytes(_, _)
SumBytes(tbl, ks) ==
    IF ks = {} THEN 0
    ELSE LET k == CHOOSE x \in ks : TRUE
         IN  tbl[k].bytes_sent + SumBytes(tbl, ks \ {k})

HasWorkload(ip) == cache_mgr # None /\ IpString(ip) \in DOMAIN IpToWorkload
WorkloadOf(ip) == IpToWorkload[IpString(ip)]
Resolvable(k) == HasWorkload(k.src_addr) /\ HasWorkload(k.dest_addr)
SelfOrLoopback(k) == k.src_addr = k.dest_addr \/ k.dest_addr \div 16777216 = 127
KnownRole(k) == k.role \in {CONNECTION_ROLE_CLIENT, CONNECTION_ROLE_SERVER}
Active(k) == k \in DOMAIN CONNECTIONS /\ CONNECTIONS[k].is_active = 1

\* the raw entries that count: active, not self, not loopback, known role, resolvable
Counted(k) == Active(k) /\ ~SelfOrLoopback(k) /\ KnownRole(k) /\ Resolvable(k)
CountedFor(c) == {k \in DOMAIN CONNECTIONS : Counted(k) /\ build_connection(cache_mgr, k).conn = c}

\* the last poll() returned Ok and the raw table is as that poll scanned it
Polled == poll_result.ok /\ ~dirty

\* every Connection a raw key of the model or a result can name
Conns ==
    {build_connection("Some", k).conn : k \in {x \in Keys : build_connection("Some", x).ok}}
        \cup DOMAIN poll_result.totals \cup DOMAIN past_conns_map \cup DOMAIN current_conns

(* ------------------------------- claims ------------------------------- *)
\* C1: the total poll() returns for a Connection is the sum of the byte counts
\* of the active, non-self, non-loopback, known-role, resolvable raw entries
\* that resolve to it plus its archived total; a Connection is in the result
\* exactly when it has such an entry or an archived total; and a poll that
\* follows a poll with no raw-table change in between returns the same totals.
C1_PollTotals ==
    /\ [](Polled =>
            \A c \in Conns :
                /\ TotalOf(poll_result.totals, c)
                       = SumBytes(CONNECTIONS, CountedFor(c)) + TotalOf(past_conns_map, c)
                /\ c \in DOMAIN poll_result.totals
                       <=> (CountedFor(c) # {} \/ c \in DOMAIN past_conns_map))
    /\ [][(Polled /\ poll_result'.ok) => poll_result'.totals = poll_result.totals]_vars

\* C1 witness: a poll returned 2 for a Connection fed by two raw entries
C1_Witness ==
    /\ Polled
    /\ \E c \in DOMAIN poll_result.totals :
          Cardinality(CountedFor(c)) = 2 /\ poll_result.totals[c] = 2

\* the raw keys of the model that resolve to a Connection
ResolvingKeys == {k \in Keys : build_connection("Some", k).ok}
ConnOf(k) == build_connection("Some", k).conn

\* C2: a raw entry a poll observes inactive is folded into the archive: the
\* archived total of its Connection comes to hold its final byte count.
C2_EvictionArchived ==
    \A k \in ResolvingKeys :
        (k \in keys_to_remove)
            ~> (/\ ConnOf(k) \in DOMAIN past_conns_map
                /\ past_conns_map[ConnOf(k)] >= 1)

\* C3: a raw entry a poll observes inactive is removed from the raw table by
\* that poll.
C3_InactiveRemoved ==
    \A k \in Keys : (k \in keys_to_remove) ~> (k \notin DOMAIN CONNECTIONS)

\* C4: the total a poll yields for a Connection is never below the total the
\* poll before it returned, the poll that meets an inactive entry included
\* (current_conns is the value that poll returns, fixed before eviction).
C4_Monotonic ==
    (pc = "blocked" /\ poll_result.ok) =>
        \A c \in DOMAIN poll_result.totals :
            TotalOf(current_conns, c) >= poll_result.totals[c]

\* C5: a raw entry with src_addr = dest_addr or a loopback dest_addr, active
\* or not, adds nothing to a total poll() returns and nothing to the archive:
\* the totals are those of the entries that are neither, and no Connection of
\* the result or of the archive comes from such an entry alone.
C5_SelfLoopbackExcluded ==
    LET Others(c) ==
            {k \in DOMAIN CONNECTIONS :
                /\ ~SelfOrLoopback(k)
                /\ Active(k)
                /\ build_connection(cache_mgr, k).ok
                /\ build_connection(cache_mgr, k).conn = c}
    IN  /\ Polled =>
            \A c \in DOMAIN poll_result.totals :
                /\ Others(c) # {}
                /\ poll_result.totals[c] = SumBytes(CONNECTIONS, Others(c))
        /\ \A c \in DOMAIN past_conns_map :
              \E k \in Keys : ~SelfOrLoopback(k) /\ k \in ResolvingKeys /\ ConnOf(k) = c

\* C5 witness: a poll returned with an active self or loopback entry in the
\* table next to an entry that counts
C5_Witness ==
    /\ Polled
    /\ \E k \in DOMAIN CONNECTIONS : Active(k) /\ SelfOrLoopback(k) /\ Resolvable(k)
    /\ \E k \in DOMAIN CONNECTIONS : Counted(k)
    /\ Cardinality(DOMAIN poll_result.totals) = 1

\* C6: a raw entry whose source or destination IP has no workload adds
\* nothing to the mapping poll() returns (every Connection of the result comes
\* from entries with both workloads known, and its total is theirs), and never
\* makes poll() fail: the error of a failed poll is the missing table handle or
\* the table iterator's, never a resolution error.
C6_UnresolvableDropped ==
    LET From(c) ==
            {k \in DOMAIN CONNECTIONS :
                /\ Resolvable(k)
                /\ Active(k)
                /\ build_connection(cache_mgr, k).ok
                /\ build_connection(cache_mgr, k).conn = c}
    IN  /\ Polled =>
            \A c \in DOMAIN poll_result.totals :
                /\ c.client \in {"X", "Y"} /\ c.server \in {"X", "Y"}
                /\ From(c) # {}
                /\ poll_result.totals[c] <= SumBytes(CONNECTIONS, From(c))
        /\ start_result = "Err" =>
              poll_result.err \in {"No current connections map", "MapError"}

\* C6 witness: a poll returned Ok with an active unresolvable entry in the
\* table next to an entry that counts
C6_Witness ==
    /\ Polled
    /\ \E k \in DOMAIN CONNECTIONS :
          Active(k) /\ ~Resolvable(k) /\ ~SelfOrLoopback(k) /\ KnownRole(k)
    /\ \E k \in DOMAIN CONNECTIONS : Counted(k)
    /\ Cardinality(DOMAIN poll_result.totals) = 1

\* C7: for every raw key with both workloads known, build_connection gives,
\* for role Client, server_port = dest_port, client = workload of src_addr,
\* server = workload of dest_addr; for role Server, server_port = src_port,
\* client = workload of dest_addr, server = workload of src_addr; for any
\* other role no Connection; and poll() files a counted entry under exactly
\* that Connection.
C7_RolePort ==
    \A k \in DOMAIN CONNECTIONS :
        Resolvable(k) =>
            LET b == build_connection(cache_mgr, k)
            IN  /\ k.role = CONNECTION_ROLE_CLIENT =>
                      /\ b.ok
                      /\ b.conn.server_port = k.dest_port
                      /\ b.conn.client = WorkloadOf(k.src_addr)
                      /\ b.conn.server = WorkloadOf(k.dest_addr)
                /\ k.role = CONNECTION_ROLE_SERVER =>
                      /\ b.ok
                      /\ b.conn.server_port = k.src_port
                      /\ b.conn.client = WorkloadOf(k.dest_addr)
                      /\ b.conn.server = WorkloadOf(k.src_addr)
                /\ ~KnownRole(k) => ~b.ok
                /\ (Polled /\ Counted(k)) =>
                      \E c \in DOMAIN poll_result.totals :
                          /\ c.server_port =
                                 IF k.role = CONNECTION_ROLE_CLIENT THEN k.dest_port ELSE k.src_port
                          /\ c.client =
                                 IF k.role = CONNECTION_ROLE_CLIENT
                                    THEN WorkloadOf(k.src_addr) ELSE WorkloadOf(k.dest_addr)
                          /\ c.server =
                                 IF k.role = CONNECTION_ROLE_CLIENT
                                    THEN WorkloadOf(k.dest_addr) ELSE WorkloadOf(k.src_addr)

\* C7 witness: a poll returned with the Server-role entry (source port 80,
\* source B, destination A) counted under {client X, server Y, port 80}
C7_Witness ==
    /\ Polled
    /\ Counted(KeyServer)
    /\ \E c \in DOMAIN poll_result.totals :
          /\ c.role = CONNECTION_ROLE_SERVER
          /\ c.server_port = 80 /\ c.client = "X" /\ c.server = "Y"

\* C8: a Client-role and a Server-role observation of one flow are one
\* Connection in poll()'s result: with (A,1000,B,80,Client) and
\* (B,80,A,1000,Server) active, the result has a single Connection
\* {client X, server Y, port 80} whose total is the sum of the two counters.
C8_Collapsed ==
    (Polled /\ Counted(KeyClient) /\ Counted(KeyServer)) =>
        \E c \in DOMAIN poll_result.totals :
            /\ c.client = "X" /\ c.server = "Y" /\ c.server_port = 80
            /\ poll_result.totals[c]
                   = CONNECTIONS[KeyClient].bytes_sent + CONNECTIONS[KeyServer].bytes_sent

\* C9: a start() call made on an engine with no table handle never returns Ok.
C9_BareStartFails == started_bare => start_result # "Ok"

\* C10: a start() call returns Err only from a failed poll cycle, with
\* program_state set to Failed by then; a failed poll cycle always ends the
\* call with Err; and the call returns Ok only on receiving a shutdown signal
\* addressed to the program.
C10_FailedOnPollError ==
    [][/\ (pc = "select" /\ pc' = "idle") =>
            IF start_result' = "Err"
               THEN /\ program_state' = "Failed"
                    /\ poll_result'.err \in {"No current connections map", "MapError"}
               ELSE /\ start_result' = "Ok"
                    /\ shutdown_rx # <<>>
                    /\ Addressed(Head(shutdown_rx))
       /\ (poll_result' # poll_result
             /\ poll_result'.err \in {"No current connections map", "MapError"}) =>
            /\ pc' = "idle"
            /\ start_result' = "Err"
            /\ program_state' = "Failed"]_vars

\* C10 witness: start() has returned Err after a poll found no table handle,
\* and the state is Failed
C10_Witness ==
    /\ pc = "idle"
    /\ start_result = "Err"
    /\ program_state = "Failed"
    /\ poll_result.err = "No current connections map"

\* C11: when start() returns Err, reset() has run: the table handle is None,
\* the archive is empty and the metadata is empty.
C11_ResetOnError ==
    [][(pc = "select" /\ pc' = "idle" /\ start_result' = "Err") =>
            /\ current_conns_map' = None
            /\ past_conns_map' = EmptyMap
            /\ metadata' = <<>>]_vars

\* C14: once program_state is Failed, no operation of the engine changes it.
C14_FailedTerminal == [][program_state = "Failed" => program_state' = "Failed"]_vars

\* C15: with a table handle bound poll() returns Ok: a poll fails only when
\* the handle is absent.
C15_PollFailsOnlyWithoutHandle ==
    [][(poll_result' # poll_result /\ ~poll_result'.ok /\ poll_result'.err # "none") =>
            current_conns_map = None]_vars

\* C16: poll() never asks for the write lock of the engine while it still
\* holds its read guard, so the task that runs it always has a step to take.
C16_PollCompletes == ~(readers > 0 /\ write_wait) /\ (pc # "idle" => ENABLED TaskNext)

\* C20: an init() that returns an error leaves program_state, the table
\* handle, the metadata and the identity resolver as they were.
C20_FailedInitChangesNothing ==
    [][(\E md \in Metadatas, outcome \in InitOutcomes \ {"bound"} : init(md, outcome)) =>
            /\ program_state' = program_state
            /\ current_conns_map' = current_conns_map
            /\ metadata' = metadata
            /\ cache_mgr' = cache_mgr]_vars

\* a signal meant for this engine: All, or ProgramName("service_map")
ForUs(sig) == sig.all \/ sig.name = "service_map"

\* the step in which the loop's recv arm takes the oldest pending signal
RecvStep ==
    /\ pc = "select"
    /\ shutdown_rx # <<>>
    /\ Len(shutdown_rx') < Len(shutdown_rx)
    /\ start_result' # "Err"

\* C12: start() returns Ok exactly when its recv arm takes All or
\* ProgramName("service_map"); a ProgramName signal with another name is
\* dropped: the loop goes on and program_state, the table handle, the archive
\* and the metadata are what they were.
C12_ShutdownAddressing ==
    [][/\ (pc = "select" /\ pc' = "idle" /\ start_result' = "Ok") =>
              (RecvStep /\ ForUs(Head(shutdown_rx)))
       /\ (RecvStep /\ ForUs(Head(shutdown_rx))) =>
              (pc' = "idle" /\ start_result' = "Ok")
       /\ (RecvStep /\ ~ForUs(Head(shutdown_rx))) =>
              /\ pc' = "select"
              /\ start_result' = "none"
              /\ UNCHANGED <<program_state, current_conns_map, past_conns_map, metadata>>]_vars

\* a running start() on a bound engine has just dropped a signal for another
\* program and is still in its loop
C12_Witness ==
    /\ signal # NoSignal
    /\ ~ForUs(signal)
    /\ pc = "select"
    /\ program_state = "Running"
    /\ current_conns_map # None
    /\ start_result = "none"

\* C13: a shutdown signal addressed to the engine that is pending while
\* start() runs on an initialized engine leads, under fair scheduling of the
\* task, to the return of start() (the claim: with Ok, after reset()).
C13_ShutdownReturns ==
    (/\ pc = "select"
     /\ current_conns_map # None
     /\ shutdown_rx # <<>>
     /\ ForUs(Head(shutdown_rx))) ~> (pc = "idle")

\* the keys a poll is evicting that resolve to Connection c
EvictedFor(c) == {k \in keys_to_remove \cap ResolvingKeys : ConnOf(k) = c}

\* C17: no archive update is lost: once a poll has entries to evict, the
\* eviction completes (no guard of the engine's lock is left held) with the
\* archived total of every Connection equal to the sum of the final byte
\* counts of the evicted entries that resolve to it.
C17_NoLostUpdate ==
    (keys_to_remove # {})
        ~> (/\ readers = 0
            /\ ~write_wait
            /\ \A k \in keys_to_remove \cap ResolvingKeys :
                   TotalOf(past_conns_map, ConnOf(k)) =
                       SumBytes(CONNECTIONS, EvictedFor(ConnOf(k)) \cap DOMAIN CONNECTIONS))

\* thread t has a record in the scratch table the return probe p reads
HasRecord(p, t) ==
    IF p = "ret_send" THEN t \in DOMAIN ACTIVE_WRITE_MAP
    ELSE t \in DOMAIN ACTIVE_READ_MAP

\* thread t has a record in some scratch table of the family of probe p
HasScratch(p, t) ==
    IF p = "ret_send" THEN t \in DOMAIN ACTIVE_WRITE_MAP
    ELSE t \in DOMAIN ACTIVE_READ_MAP \/ t \in DOMAIN ACTIVE_CONNECT_MAP

RetProbes == {"ret_send", "ret_recvmsg"}

\* a step in which return probe p runs for thread t
RetProbeStep(p, t) ==
    /\ probe_event' # probe_event
    /\ probe_event'.probe = p
    /\ probe_event'.tid = t

\* C18: after any run of a return probe for thread t, early and error
\* returns included, the scratch tables of its family hold no record of t.
C18_ScratchRemoved ==
    [][\A p \in RetProbes, t \in Threads : RetProbeStep(p, t) => ~HasScratch(p, t)']_vars

\* C19: a return probe calls the accounting routine only when the thread has
\* a scratch record, and the record is gone afterwards; without a record
\* there is no sample and the raw table is unchanged; and the raw table
\* changes in the probes only by a sample.
C19_EntryReturnPairing ==
    [][/\ \A p \in RetProbes, t \in Threads :
              RetProbeStep(p, t) =>
                  /\ probe_event'.sampled => (HasRecord(p, t) /\ ~HasRecord(p, t)')
                  /\ ~HasRecord(p, t) =>
                         (~probe_event'.sampled /\ CONNECTIONS' = CONNECTIONS)
       /\ CONNECTIONS' # CONNECTIONS =>
              /\ probe_event' # probe_event
              /\ probe_event'.probe \in RetProbes
              /\ probe_event'.sampled]_vars

\* a return probe has just sampled: the raw table holds the bytes and the
\* thread's record is gone
C19_Witness ==
    /\ probe_event.probe \in RetProbes
    /\ probe_event.sampled
    /\ ~HasRecord(probe_event.probe, probe_event.tid)
    /\ CONNECTIONS # EmptyMap

====
